---- MODULE Spec2Model ----
(***************************************************************************)
(* Model of the two scripts of ebook-to-audiobook-on-gcp:                  *)
(*   create_vm.py                         the provisioner (zone search)    *)
(*   ebook_to_audiobook_cloud_pipeline.py the pipeline driver              *)
(* Strings that the code takes apart (zone listings, file and directory    *)
(* names, paths) are sequences of one-character strings, so that strip,    *)
(* split, lower, endswith, replace and the os.path functions are computed  *)
(* as Python computes them.  Other strings are TLA+ strings.               *)
(***************************************************************************)
EXTENDS Integers, Sequences, FiniteSets, TLC

VARIABLES
    \* ---- provisioner (create_vm.py) ----
    zoneListing,      \* the zone names the listing call prints, one per line
    instance_name,    \* --instance-name
    pPc,              \* position of create_vm.main
    zones,            \* main's list `zones`
    zIdx,             \* index of the zone the for loop is at
    vm_created,       \* main's flag
    successful_zone,  \* main's variable
    attempts,         \* history: the creation calls made, in order
    instances,        \* zones holding an instance created by this run
    configFile,       \* the connection record file: <<>> (absent) or <<content>>
    priorFile,        \* content of that file when the run started
    configWrites,     \* history: writes of the connection record by this run
    pExit             \* <<>> while the provisioner runs, then <<its exit code>>

VARIABLES
    \* ---- the platform and the local file system ----
    os_sep,           \* os.sep: "/" on POSIX, "\\" on Windows
    ebookDirs,        \* the directories under ebooks_root, each a list of names
    ebookFiles,       \* the names of the files in each of them and in the root
    audioDirs,        \* the directories under audiobooks_root
    audioFiles,       \* the paths of the files under audiobooks_root
    tmp_output,       \* the names of the files in TEMP_OUTPUT_DIR
    \* ---- the imported tables and the command line ----
    MANUAL_EXCLUSION_LIST,
    LANGUAGE_MAP,     \* the dict, as a set of <<key, value>>
    monolingual_code  \* "" when --monolingual is not given

VARIABLES
    \* ---- find_best_ebook_file on its own ----
    bPc,              \* "start", then "done" once the function has returned
    listing,          \* os.listdir(folder_path), in the order the system gives
    best_file         \* what the function returned: <<>> (None) or <<path>>

VARIABLES
    \* ---- scan_for_books ----
    sPc,              \* "idle", "start", "walk" (monolingual), "multi", "done"
    auto_exclude_list,
    books_to_convert,
    walkStack,        \* os.walk: the directories still to yield, depth first
    curRoot,          \* os.walk: <<root>> while the body runs on it, else <<>>
    dirs,             \* os.walk: the list `dirs` of curRoot, pruned by the body
    dirsTodo,         \* the copy list(dirs) the inner loop iterates over
    langTodo,         \* multilingual: entries of the root still to take
    catTodo,          \* multilingual: entries of the language directory
    bookTodo,         \* multilingual: entries of the category directory
    walked,           \* history: the directories os.walk has yielded
    examined,         \* history: the directories find_best_ebook_file has listed
    audioAtScan       \* history: audioDirs when the scan started

VARIABLES
    \* ---- the driver (ebook_to_audiobook_cloud_pipeline.main) ----
    dPc,              \* position of main
    GCP_CONFIG,       \* the global dict: <<>> until loaded, then <<content>>
    setupScript,      \* whether setup_remote.sh exists
    bookIdx,          \* i + 1 of the for loop over books_to_convert
    pending,          \* how the try block was left, while the finally block runs
    trace,            \* history: the steps of this run, in order
    dExit,            \* <<>> while the driver runs, then <<its exit code>>
    run               \* the number of the driver run

provVars == <<zoneListing, instance_name, pPc, zones, zIdx, vm_created,
              successful_zone, attempts, instances, priorFile,
              configWrites, pExit>>
fsVars == <<ebookDirs, ebookFiles, audioDirs, audioFiles, tmp_output>>
inputVars == <<MANUAL_EXCLUSION_LIST, LANGUAGE_MAP, monolingual_code>>
bestVars == <<bPc, listing, best_file>>
walkVars == <<walkStack, curRoot, dirs, dirsTodo>>
multiVars == <<langTodo, catTodo, bookTodo>>
scanVars == <<sPc, auto_exclude_list, books_to_convert, walkVars, multiVars,
              walked, examined, audioAtScan>>
driverVars == <<dPc, GCP_CONFIG, setupScript, bookIdx, pending, trace, dExit, run>>

vars == <<provVars, configFile, os_sep, fsVars, inputVars, bestVars, scanVars,
          driverVars>>

\* ------------------------------------------------------------------ bounds
MaxZones == 3
MaxEntries == 3
MaxDirs == 4
MaxRuns == 2

\* ----------------------------------------------------------------- strings
Alphabet ==
    [upper |-> <<"A","B","C","D","E","F","G","H","I","J","K","L","M",
                 "N","O","P","Q","R","S","T","U","V","W","X","Y","Z">>,
     lower |-> <<"a","b","c","d","e","f","g","h","i","j","k","l","m",
                 "n","o","p","q","r","s","t","u","v","w","x","y","z">>]

\* str.lower() on one character
LowerChar(c) ==
    IF \E i \in DOMAIN Alphabet.upper : Alphabet.upper[i] = c
    THEN Alphabet.lower[CHOOSE i \in DOMAIN Alphabet.upper : Alphabet.upper[i] = c]
    ELSE c

\* str.lower()
Lower(s) == [i \in 1..Len(s) |-> LowerChar(s[i])]

\* str.endswith(suffix)
EndsWith(s, suffix) ==
    /\ Len(s) >= Len(suffix)
    /\ SubSeq(s, Len(s) - Len(suffix) + 1, Len(s)) = suffix

\* str.startswith(prefix)
StartsWith(s, prefix) ==
    /\ Len(s) >= Len(prefix)
    /\ SubSeq(s, 1, Len(prefix)) = prefix

\* str.replace(old, new) for one-character old and new
Replace(s, old, new) == [i \in 1..Len(s) |-> IF s[i] = old THEN new ELSE s[i]]

Whitespace == {" ", "\n", "\t", "\r"}

RECURSIVE LStrip(_)
LStrip(s) == IF s # <<>> /\ Head(s) \in Whitespace THEN LStrip(Tail(s)) ELSE s

RECURSIVE RStrip(_)
RStrip(s) ==
    IF s # <<>> /\ s[Len(s)] \in Whitespace THEN RStrip(SubSeq(s, 1, Len(s) - 1)) ELSE s

\* str.strip()
Strip(s) == RStrip(LStrip(s))

\* str.split(c): the pieces between the occurrences of c; never the empty list
RECURSIVE SplitFrom(_, _, _)
SplitFrom(s, c, piece) ==
    IF s = <<>> THEN <<piece>>
    ELSE IF Head(s) = c THEN <<piece>> \o SplitFrom(Tail(s), c, <<>>)
    ELSE SplitFrom(Tail(s), c, Append(piece, Head(s)))

Split(s, c) == SplitFrom(s, c, <<>>)

\* the text a command prints for a list of lines: each line ends with "\n"
RECURSIVE Lines(_)
Lines(list) == IF list = <<>> THEN <<>> ELSE Head(list) \o <<"\n">> \o Lines(Tail(list))

\* the sequences over S of length at most n
SeqUpTo(S, n) == UNION {[1..k -> S] : k \in 0..n}

\* the sequences without repetition over S of length at most n
Listings(S, n) == {l \in SeqUpTo(S, n) : \A i, j \in DOMAIN l : l[i] = l[j] => i = j}

\* the orders in which the system may list the set S
OrdersOf(S) ==
    {l \in [1..Cardinality(S) -> S] : \A i, j \in DOMAIN l : l[i] = l[j] => i = j}

\* list.remove(x) on a list without repetition
Remove(list, x) == SelectSeq(list, LAMBDA y : y # x)

None == <<>>
NoFile == <<>>
Running == <<>>

\* --------------------------------------- the parts a specification leaves out
IdleProv ==
    /\ zoneListing = <<>>
    /\ instance_name = ""
    /\ pPc = "idle"
    /\ zones = <<>>
    /\ zIdx = 1
    /\ vm_created = FALSE
    /\ successful_zone = <<>>
    /\ attempts = <<>>
    /\ instances = {}
    /\ priorFile = NoFile
    /\ configWrites = 0
    /\ pExit = Running

IdleFs ==
    /\ ebookDirs = {}
    /\ ebookFiles = [p \in {<<>>} |-> {}]
    /\ audioDirs = {}
    /\ audioFiles = {}
    /\ tmp_output = {}
    /\ MANUAL_EXCLUSION_LIST = {}
    /\ LANGUAGE_MAP = {}
    /\ monolingual_code = ""

IdleBest == bPc = "idle" /\ listing = <<>> /\ best_file = None

IdleScan(pc) ==
    /\ sPc = pc
    /\ auto_exclude_list = {}
    /\ books_to_convert = <<>>
    /\ walkStack = <<>>
    /\ curRoot = None
    /\ dirs = <<>>
    /\ dirsTodo = <<>>
    /\ langTodo = <<>>
    /\ catTodo = <<>>
    /\ bookTodo = <<>>
    /\ walked = {}
    /\ examined = {}
    /\ audioAtScan = {}

IdleDriver ==
    /\ dPc = "idle"
    /\ GCP_CONFIG = None
    /\ setupScript = FALSE
    /\ bookIdx = 1
    /\ pending = ""
    /\ trace = <<>>
    /\ dExit = Running
    /\ run = 1

\* ============================================================ create_vm.py
ZoneNames == {<<"u","s","-","a">>, <<"e","u","-","b">>}
InstanceNames == {"ebook-converter-vm", "vm2"}
OldRecord == [GCP_PROJECT_ID |-> "old", GCP_ZONE |-> <<"o","l","d">>,
              INSTANCE_NAME |-> "oldvm", REMOTE_USER |-> "old_user"]

\* what get_gcp_details returns on success
project_id == "proj"
remote_user == "jane_doe"

\* the text of an error, as the list of the words in it
QUOTA_EXCEEDED == "QUOTA_EXCEEDED"
ZONE_RESOURCE_POOL_EXHAUSTED == "ZONE_RESOURCE_POOL_EXHAUSTED"
ErrorTexts == {<<>>, <<QUOTA_EXCEEDED>>, <<ZONE_RESOURCE_POOL_EXHAUSTED>>,
               <<"PERMISSION_DENIED">>,
               <<ZONE_RESOURCE_POOL_EXHAUSTED, "and", QUOTA_EXCEEDED>>}

\* `word in error_message`
Contains(error_message, word) == \E i \in DOMAIN error_message : error_message[i] = word

\* what run_gcloud_command returns: None (gcloud not found), the finished
\* process (returncode 0) or the CalledProcessError (returncode # 0, stderr)
GcloudResults ==
    {[kind |-> "None", returncode |-> 1, stderr |-> <<>>],
     [kind |-> "process", returncode |-> 0, stderr |-> <<>>]}
    \cup {[kind |-> "error", returncode |-> 1, stderr |-> e] : e \in ErrorTexts}

\* line 131: `result and result.returncode == 0`
Succeeded(result) == result.kind # "None" /\ result.returncode = 0

\* line 139
ErrorMessage(result) == IF result.kind = "None" THEN <<"Unknown error.">> ELSE result.stderr

\* a classification that tests for the exhausted pool first
FailureClass_PoolFirst(error_message) ==
    IF Contains(error_message, ZONE_RESOURCE_POOL_EXHAUSTED) THEN "exhausted"
    ELSE IF Contains(error_message, QUOTA_EXCEEDED) THEN "quota"
    ELSE "other"

\* the branch the else part of the loop body takes, lines 140-172
FailureClass(error_message) ==
    IF Contains(error_message, QUOTA_EXCEEDED) THEN "quota"
    ELSE IF Contains(error_message, ZONE_RESOURCE_POOL_EXHAUSTED) THEN "exhausted"
    ELSE "other"

\* line 88
ParseZones(stdout) == Split(Strip(stdout), "\n")

\* a record that names the first zone of the list, not the successful one
ConfigData_FirstZone(zone) ==
    [GCP_PROJECT_ID |-> project_id, GCP_ZONE |-> zones[1],
     INSTANCE_NAME |-> instance_name, REMOTE_USER |-> remote_user]

\* lines 177-182
ConfigData(zone) ==
    [GCP_PROJECT_ID |-> project_id, GCP_ZONE |-> zone,
     INSTANCE_NAME |-> instance_name, REMOTE_USER |-> remote_user]

InitProv ==
    /\ zoneListing \in SeqUpTo(ZoneNames, MaxZones)
    /\ instance_name \in InstanceNames
    /\ pPc = "start"
    /\ zones = <<>>
    /\ zIdx = 1
    /\ vm_created = FALSE
    /\ successful_zone = <<>>
    /\ attempts = <<>>
    /\ instances = {}
    /\ configFile \in {NoFile, <<OldRecord>>}
    /\ priorFile = configFile
    /\ configWrites = 0
    /\ pExit = Running
    /\ os_sep = "/"
    /\ IdleFs
    /\ IdleBest
    /\ IdleScan("idle")
    /\ IdleDriver

notProv == <<os_sep, fsVars, inputVars, bestVars, scanVars, driverVars>>

\* main, lines 76-97: the account details, then the zone listing
ProvStart ==
    /\ pPc = "start"
    /\ \E detailsOk \in BOOLEAN, zones_proc \in {"None", "error", "process"} :
         IF ~detailsOk \/ zones_proc # "process"
         THEN /\ pPc' = "exit"
              /\ pExit' = <<1>>
              /\ zones' = zones
         ELSE /\ pPc' = "loop"
              /\ pExit' = pExit
              /\ zones' = ParseZones(Lines(zoneListing))
    /\ UNCHANGED <<zoneListing, instance_name, zIdx, vm_created, successful_zone,
                   attempts, instances, configFile, priorFile, configWrites, notProv>>

\* main, lines 99-172: one iteration of the for loop over zones
TryZone ==
    /\ pPc = "loop"
    /\ ~vm_created
    /\ zIdx <= Len(zones)
    /\ \E result \in GcloudResults :
         LET zone == zones[zIdx]
             class == FailureClass(ErrorMessage(result))
         IN /\ attempts' = Append(attempts, [zone |-> zone, result |-> result])
            /\ IF Succeeded(result)
               THEN /\ vm_created' = TRUE
                    /\ successful_zone' = zone
                    /\ instances' = instances \cup {zone}
                    /\ UNCHANGED <<zIdx, pPc, pExit>>
               ELSE /\ UNCHANGED <<vm_created, successful_zone, instances>>
                    /\ IF class = "quota"
                       THEN /\ pPc' = "exit"
                            /\ pExit' = <<1>>
                            /\ zIdx' = zIdx
                       ELSE /\ zIdx' = zIdx + 1
                            /\ UNCHANGED <<pPc, pExit>>
    /\ UNCHANGED <<zoneListing, instance_name, zones, configFile, priorFile,
                   configWrites, notProv>>

\* main, lines 174-190: after the loop
ProvFinish ==
    /\ pPc = "loop"
    /\ vm_created \/ zIdx > Len(zones)
    /\ IF vm_created
       THEN /\ configFile' = <<ConfigData(successful_zone)>>
            /\ configWrites' = configWrites + 1
       ELSE UNCHANGED <<configFile, configWrites>>
    /\ pPc' = "done"
    /\ pExit' = <<0>>
    /\ UNCHANGED <<zoneListing, instance_name, zones, zIdx, vm_created,
                   successful_zone, attempts, instances, priorFile, notProv>>

NextProv == ProvStart \/ TryZone \/ ProvFinish

SpecProv == InitProv /\ [][NextProv]_vars

\* ===================================== ebook_to_audiobook_cloud_pipeline.py
\* an ordering of the extensions with .txt first
FILE_FORMAT_PRIORITY_TxtFirst ==
    <<<<".","t","x","t">>, <<".","e","p","u","b">>, <<".","a","z","w","3">>, <<".","a","z","w">>, <<".","m","o","b","i">>, <<".","p","d","f">>>>

\* line 51
FILE_FORMAT_PRIORITY ==
    <<<<".","e","p","u","b">>, <<".","a","z","w","3">>, <<".","a","z","w">>, <<".","m","o","b","i">>, <<".","t","x","t">>, <<".","p","d","f">>>>

OsSeps == {"/", "\\"}

\* the characters the platform's os.path takes for separators
Separators == IF os_sep = "\\" THEN {"/", "\\"} ELSE {"/"}

\* os.path.join(a, b) for a relative b
PathJoin(a, b) ==
    IF a = <<>> THEN b
    ELSE IF a[Len(a)] \in Separators THEN a \o b
    ELSE a \o <<os_sep>> \o b

\* os.path.join of a list of names
RECURSIVE JoinAll(_)
JoinAll(names) ==
    IF names = <<>> THEN <<>>
    ELSE IF Len(names) = 1 THEN names[1]
    ELSE PathJoin(JoinAll(SubSeq(names, 1, Len(names) - 1)), names[Len(names)])

\* os.path.normpath on a relative path without "." and "..": on Windows every
\* "/" becomes "\\"
NormPath(p) == IF os_sep = "\\" THEN Replace(p, "/", "\\") ELSE p

\* os.path.relpath(path, start) for a path below start
RelPath(path, start) ==
    IF StartsWith(NormPath(path), NormPath(start) \o <<os_sep>>)
    THEN SubSeq(NormPath(path), Len(start) + 2, Len(path))
    ELSE NormPath(path)

\* the position of the last separator of p, 0 when there is none
LastSep(p) ==
    IF \E i \in DOMAIN p : p[i] \in Separators
    THEN CHOOSE i \in DOMAIN p :
            /\ p[i] \in Separators
            /\ \A j \in DOMAIN p : p[j] \in Separators => j <= i
    ELSE 0

\* os.path.dirname(p) for a relative path
Dirname(p) == IF LastSep(p) = 0 THEN <<>> ELSE SubSeq(p, 1, LastSep(p) - 1)

\* the names a path is made of
PathParts(p) ==
    SelectSeq(Split(Replace(p, "\\", IF os_sep = "\\" THEN "/" ELSE "\\"), "/"),
              LAMBDA piece : piece # <<>>)

\* the non-empty prefixes of a list of names: what os.makedirs creates
Prefixes(parts) == {SubSeq(parts, 1, k) : k \in 1..Len(parts)}

\* lines 317-319: the first entry of the listing that ends with ext
RECURSIVE FirstWithExt(_, _)
FirstWithExt(files, ext) ==
    IF files = <<>> THEN None
    ELSE IF EndsWith(Lower(Head(files)), ext) THEN <<Head(files)>>
    ELSE FirstWithExt(Tail(files), ext)

\* lines 316-320: the loop over the extensions, in priority order
RECURSIVE BestFrom(_, _)
BestFrom(exts, files) ==
    IF exts = <<>> THEN None
    ELSE IF FirstWithExt(files, Head(exts)) # None THEN FirstWithExt(files, Head(exts))
    ELSE BestFrom(Tail(exts), files)

\* find_best_ebook_file, lines 315-320, on a folder whose listing is `files`
find_best_ebook_file(folder_path, files) ==
    IF BestFrom(FILE_FORMAT_PRIORITY, files) = None THEN None
    ELSE <<PathJoin(folder_path, BestFrom(FILE_FORMAT_PRIORITY, files)[1])>>

\* ------------------------------- find_best_ebook_file applied to one folder
EntryNames ==
    {<<"a",".","e","p","u","b">>, <<"b",".","E","P","U","B">>, <<"c",".","a","z","w","3">>, <<"d",".","a","z","w">>, <<"e",".","m","o","b","i">>,
     <<"f",".","t","x","t">>, <<"g",".","P","d","f">>, <<"h",".","j","p","g">>, <<"e","p","u","b">>, <<"i",".","t","x","t",".","b","a","k">>}
BookFolder == <<"E","/","A","b">>

InitBest ==
    /\ IdleProv
    /\ configFile = NoFile
    /\ os_sep \in OsSeps
    /\ IdleFs
    /\ bPc = "start"
    /\ listing \in Listings(EntryNames, MaxEntries)
    /\ best_file = None
    /\ IdleScan("idle")
    /\ IdleDriver

\* a call of find_best_ebook_file, lines 315-320
FindBest ==
    /\ bPc = "start"
    /\ best_file' = find_best_ebook_file(BookFolder, listing)
    /\ bPc' = "done"
    /\ UNCHANGED <<provVars, configFile, os_sep, fsVars, inputVars, listing,
                   scanVars, driverVars>>

NextBest == FindBest

SpecBest == InitBest /\ [][NextBest]_vars

\* ------------------------------------------------------------ the library
ebooks_root == <<"E">>
audiobooks_root == <<"A">>
TTS == <<" ","T","T","S">>

\* the directories directly under directory p
Children(p) == {q \in ebookDirs : Len(q) = Len(p) + 1 /\ SubSeq(q, 1, Len(p)) = p}

\* os.listdir(p): the names of the files and of the directories in p
ListDir(p) == ebookFiles[p] \cup {q[Len(q)] : q \in Children(p)}

\* os.path.isdir
IsDir(p) == p \in ebookDirs

\* the path of the directory made of `parts` under ebooks_root
EbookPath(parts) == JoinAll(<<ebooks_root>> \o parts)

\* dict.get(key, default)
Get(dict, key, default) ==
    IF \E e \in dict : e[1] = key THEN (CHOOSE e \in dict : e[1] = key)[2] ELSE default

\* a set that keeps the case of the directory names
AutoExcludeList_KeepCase(dirPaths) ==
    {IF EndsWith(d[Len(d)], TTS) THEN SubSeq(d[Len(d)], 1, Len(d[Len(d)]) - 4)
     ELSE d[Len(d)] : d \in dirPaths}

\* lines 366-370: the set built from every directory name under audiobooks_root
AutoExcludeList(dirPaths) ==
    {IF EndsWith(d[Len(d)], TTS) THEN Lower(SubSeq(d[Len(d)], 1, Len(d[Len(d)]) - 4))
     ELSE Lower(d[Len(d)]) : d \in dirPaths}

\* a test that forgets the manual list
Included_AutoOnly(book_dir, unique_path) == Lower(book_dir) \notin auto_exclude_list

\* lines 385-388 and 416-419
Included(book_dir, unique_path) ==
    /\ Lower(book_dir) \notin auto_exclude_list
    /\ unique_path \notin MANUAL_EXCLUSION_LIST

\* a lookup by the directory name as it is written
LangCode_AsWritten(lang_dir) == Get(LANGUAGE_MAP, lang_dir, "en")

\* lines 426-428
LangCode(lang_dir) == Get(LANGUAGE_MAP, Lower(lang_dir), "en")

\* a pruning that keeps the directory of an excluded book
Pruned_OnlyIfQueued(dirList, book_dir, found, queued) ==
    IF found /\ queued THEN Remove(dirList, book_dir) ELSE dirList

\* line 398, under the test of line 380
Pruned(dirList, book_dir, found, queued) ==
    IF found THEN Remove(dirList, book_dir) ELSE dirList

\* the book descriptor; `dir` is not in the code: it records the directory
Book(path, name, lang_code, relative_path, dir) ==
    [path |-> path, name |-> name, lang_code |-> lang_code,
     relative_path |-> relative_path, dir |-> dir]

notScan == <<provVars, configFile, os_sep, fsVars, inputVars, bestVars,
             GCP_CONFIG, setupScript, bookIdx, pending, trace, dExit, run>>

\* scan_for_books, lines 365-375 and 400-401: the exclusion set, then the mode
ScanStart ==
    /\ sPc = "start"
    /\ auto_exclude_list' = AutoExcludeList(audioDirs)
    /\ audioAtScan' = audioDirs
    /\ IF monolingual_code # ""
       THEN /\ sPc' = "walk"
            /\ walkStack' = <<(<<>>)>>
            /\ langTodo' = <<>>
       ELSE /\ sPc' = "multi"
            /\ walkStack' = <<>>
            /\ langTodo' \in OrdersOf(ListDir(<<>>))
    /\ UNCHANGED <<books_to_convert, curRoot, dirs, dirsTodo, catTodo, bookTodo,
                   walked, examined, dPc, notScan>>

\* line 375: os.walk yields the next directory, with the list of its directories
WalkNext ==
    /\ sPc = "walk"
    /\ curRoot = None
    /\ walkStack # <<>>
    /\ LET root == Head(walkStack)
       IN /\ curRoot' = <<root>>
          /\ walked' = walked \cup {root}
          /\ dirs' \in OrdersOf({q[Len(q)] : q \in Children(root)})
          /\ dirsTodo' = dirs'
    /\ walkStack' = Tail(walkStack)
    /\ UNCHANGED <<sPc, auto_exclude_list, books_to_convert, multiVars, examined,
                   audioAtScan, dPc, notScan>>

\* lines 377-398: one iteration of the loop over list(dirs)
WalkBookDir ==
    /\ sPc = "walk"
    /\ curRoot # None
    /\ dirsTodo # <<>>
    /\ LET root == curRoot[1]
           book_dir == Head(dirsTodo)
           book_path == PathJoin(EbookPath(root), book_dir)
           unique_path == Replace(RelPath(book_path, ebooks_root), "\\", "/")
       IN \E files \in OrdersOf(ListDir(Append(root, book_dir))) :
            LET found == find_best_ebook_file(book_path, files)
                queued == Included(book_dir, unique_path)
            IN /\ books_to_convert' =
                    IF found # None /\ queued
                    THEN Append(books_to_convert,
                                Book(found[1], book_dir, monolingual_code, unique_path,
                                     Append(root, book_dir)))
                    ELSE books_to_convert
               /\ dirs' = Pruned(dirs, book_dir, found # None, queued)
               /\ examined' = examined \cup {Append(root, book_dir)}
    /\ dirsTodo' = Tail(dirsTodo)
    /\ UNCHANGED <<sPc, auto_exclude_list, walkStack, curRoot, multiVars, walked,
                   audioAtScan, dPc, notScan>>

\* line 375: the body is over; os.walk goes down into what is left of dirs
WalkDescend ==
    /\ sPc = "walk"
    /\ curRoot # None
    /\ dirsTodo = <<>>
    /\ walkStack' = [i \in 1..Len(dirs) |-> Append(curRoot[1], dirs[i])] \o walkStack
    /\ curRoot' = None
    /\ dirs' = <<>>
    /\ UNCHANGED <<sPc, auto_exclude_list, books_to_convert, dirsTodo, multiVars,
                   walked, examined, audioAtScan, dPc, notScan>>

\* lines 401-404: the next entry of the root
MultiLang ==
    /\ sPc = "multi"
    /\ catTodo = <<>> /\ bookTodo = <<>>
    /\ langTodo # <<>>
    /\ LET lang_dir == Head(langTodo)
       IN IF IsDir(<<lang_dir>>)
          THEN catTodo' \in {[i \in DOMAIN l |-> <<lang_dir, l[i]>>] :
                               l \in OrdersOf(ListDir(<<lang_dir>>))}
          ELSE catTodo' = <<>>
    /\ langTodo' = Tail(langTodo)
    /\ UNCHANGED <<sPc, auto_exclude_list, books_to_convert, walkVars, bookTodo,
                   walked, examined, audioAtScan, dPc, notScan>>

\* lines 405-408: the next entry of the language directory
MultiCategory ==
    /\ sPc = "multi"
    /\ bookTodo = <<>>
    /\ catTodo # <<>>
    /\ LET category == Head(catTodo)
       IN IF IsDir(category)
          THEN bookTodo' \in {[i \in DOMAIN l |-> Append(category, l[i])] :
                                l \in OrdersOf(ListDir(category))}
          ELSE bookTodo' = <<>>
    /\ catTodo' = Tail(catTodo)
    /\ UNCHANGED <<sPc, auto_exclude_list, books_to_convert, walkVars, langTodo,
                   walked, examined, audioAtScan, dPc, notScan>>

\* lines 409-433: the next entry of the category directory
MultiBook ==
    /\ sPc = "multi"
    /\ bookTodo # <<>>
    /\ LET book == Head(bookTodo)
           lang_dir == book[1]
           book_dir == book[3]
           book_path == EbookPath(book)
           unique_path == Replace(JoinAll(book), "\\", "/")
       IN IF IsDir(book) /\ Included(book_dir, unique_path)
          THEN \E files \in OrdersOf(ListDir(book)) :
                 LET found == find_best_ebook_file(book_path, files)
                 IN /\ books_to_convert' =
                         IF found # None
                         THEN Append(books_to_convert,
                                     Book(found[1], book_dir, LangCode(lang_dir),
                                          RelPath(book_path, ebooks_root), book))
                         ELSE books_to_convert
                    /\ examined' = examined \cup {book}
          ELSE UNCHANGED <<books_to_convert, examined>>
    /\ bookTodo' = Tail(bookTodo)
    /\ UNCHANGED <<sPc, auto_exclude_list, walkVars, langTodo, catTodo, walked,
                   audioAtScan, dPc, notScan>>

\* line 434: return books_to_convert, to main when main called the scan
ScanReturn ==
    /\ \/ sPc = "walk" /\ curRoot = None /\ walkStack = <<>>
       \/ sPc = "multi" /\ langTodo = <<>> /\ catTodo = <<>> /\ bookTodo = <<>>
    /\ sPc' = "done"
    /\ dPc' = IF dPc = "scan" THEN "loop" ELSE dPc
    /\ UNCHANGED <<auto_exclude_list, books_to_convert, walkVars, multiVars, walked,
                   examined, audioAtScan, notScan>>

ScanStep ==
    \/ ScanStart
    \/ WalkNext
    \/ WalkBookDir
    \/ WalkDescend
    \/ MultiLang
    \/ MultiCategory
    \/ MultiBook
    \/ ScanReturn

\* ---- the libraries the scan is applied to
nEn == <<"E","n">>
nC == <<"c">>
nAb == <<"A","b">>
nXy == <<"x","y">>
nS == <<"s">>
Skeleton == {<<nEn>>, <<nEn, nC>>, <<nEn, nC, nAb>>, <<nEn, nC, nAb, nS>>,
             <<nEn, nC, nXy>>}
PrefixClosed(S) == \A p \in S : Len(p) > 1 => SubSeq(p, 1, Len(p) - 1) \in S
Trees(n) == {S \in SUBSET Skeleton : PrefixClosed(S) /\ Cardinality(S) <= n}
RootFiles == {<<"r",".","t","x","t">>}
\* what a directory holds besides directories: no ebook, or ebooks
Contents(p) ==
    IF Len(p) >= 3 THEN {{<<"n",".","j","p","g">>}, {<<"f",".","t","x","t">>, <<"b",".","E","P","U","B">>}}
    ELSE {{<<"n",".","j","p","g">>}, {<<"b",".","E","P","U","B">>}}
FileMaps(S) == {f \in [S -> UNION {Contents(p) : p \in S}] : \A p \in S : f[p] \in Contents(p)}
AudioTrees == {{}, {<<<<"z">>>>, <<<<"z">>, <<"A","B"," ","T","T","S">>>>},
               {<<<<"z">>>>, <<<<"z">>, <<"A","B"," ","T","T","S">>>>, <<<<"X","Y">>>>}}
ManualLists == {{}, {<<"E","n","/","c","/","A","b">>, <<"E","n">>}}
LanguageMaps == {{}, {<<<<"e","n">>, "eng">>}, {<<<<"E","n">>, "fra">>}}

InitScan ==
    /\ IdleProv
    /\ configFile = NoFile
    /\ os_sep \in OsSeps
    /\ ebookDirs \in Trees(MaxDirs)
    /\ \E f \in FileMaps(ebookDirs) :
         ebookFiles = [p \in ebookDirs \cup {<<>>} |-> IF p = <<>> THEN RootFiles ELSE f[p]]
    /\ audioDirs \in AudioTrees
    /\ audioFiles = {}
    /\ tmp_output = {}
    /\ MANUAL_EXCLUSION_LIST \in ManualLists
    /\ \/ monolingual_code = "deu" /\ LANGUAGE_MAP = {}
       \/ monolingual_code = "" /\ LANGUAGE_MAP \in LanguageMaps
    /\ IdleBest
    /\ IdleScan("start")
    /\ IdleDriver

NextScan == ScanStep

SpecScan == InitScan /\ [][NextScan]_vars

\* ------------------------------------------------------------------- main
GoodRecord == [GCP_PROJECT_ID |-> "proj", GCP_ZONE |-> <<"u","s","-","a">>,
               INSTANCE_NAME |-> "ebook-converter-vm", REMOTE_USER |-> "jane_doe"]
\* a record written without its zone
NoZoneRecord == [GCP_PROJECT_ID |-> "proj",
                 INSTANCE_NAME |-> "ebook-converter-vm", REMOTE_USER |-> "jane_doe"]
\* a file that is not JSON
NotJson == [INVALID_JSON |-> "{"]

\* the keys upload_to_vm, download_from_vm and run_remote_command read,
\* lines 89, 94, 106, 111, 127, 129
RemoteKeys == {"REMOTE_USER", "INSTANCE_NAME", "GCP_ZONE"}
\* a lookup of the remote user only
HasRemoteKeys_UserOnly == GCP_CONFIG # None /\ "REMOTE_USER" \in DOMAIN GCP_CONFIG[1]

HasRemoteKeys == GCP_CONFIG # None /\ RemoteKeys \subseteq DOMAIN GCP_CONFIG[1]

\* how a remote copy or a remote command ends: it returns True, it returns
\* False, or the user interrupts it (KeyboardInterrupt)
Outcomes == {"ok", "fail", "interrupt"}

Event(what, book, result) == [what |-> what, book |-> book, result |-> result]

SetupSteps == <<"setup_upload", "setup_chmod", "setup_run">>
BookSteps == <<"mkdir", "upload", "convert", "download", "post">>

\* a setup that goes on when chmod fails
AfterSetupStep_ChmodIgnored(step, result) ==
    IF result = "ok" \/ (step = "setup_chmod" /\ result = "fail")
    THEN (IF step = "setup_upload" THEN "setup_chmod"
          ELSE IF step = "setup_chmod" THEN "setup_run" ELSE "scan")
    ELSE "exit"

\* setup_remote_vm, lines 179-197, and main, lines 464-467: where main is
\* after a step of the setup
AfterSetupStep(step, result) ==
    IF result = "ok"
    THEN (IF step = "setup_upload" THEN "setup_chmod"
          ELSE IF step = "setup_chmod" THEN "setup_run" ELSE "scan")
    ELSE "exit"

\* the exit code after a step of the setup that did not succeed: sys.exit(1)
\* at line 465, or the KeyboardInterrupt that nothing catches
SetupExit(result) == IF result = "interrupt" THEN <<130>> ELSE <<1>>

\* a loop that treats a KeyboardInterrupt like any other exception
AfterBookStep_InterruptSkips(step, result) == "next"

\* a loop in which the NameError of line 527 is not caught
AfterBookStep_DownloadFatal(step, result) ==
    IF result = "interrupt" \/ (step = "download" /\ result = "fail") THEN "abort"
    ELSE "next"

\* lines 486-545: how the try block is left after a step that did not return
\* True: `continue` (lines 491, 493, 519), the NameError of line 527 caught at
\* line 539, any other exception caught at line 539; or sys.exit(1) at line 538
AfterBookStep(step, result) == IF result = "interrupt" THEN "abort" ELSE "next"

notDriver == <<provVars, configFile, os_sep, ebookDirs, ebookFiles,
               inputVars, bestVars>>
scanRest == <<auto_exclude_list, books_to_convert, walkVars, multiVars, walked,
              examined, audioAtScan>>

DriverTree == {<<nEn>>, <<nEn, nC>>, <<nEn, nC, nAb>>, <<nEn, <<"d">>>>,
               <<nEn, <<"d">>, <<"a","b">>>>}
DriverFiles ==
    [p \in DriverTree \cup {<<>>} |->
        IF p = <<>> THEN RootFiles
        ELSE IF Len(p) = 3 THEN {<<"f",".","t","x","t">>, <<"b",".","E","P","U","B">>}
        ELSE {<<"n",".","j","p","g">>}]
DriverConfigFiles == {NoFile, <<GoodRecord>>, <<NoZoneRecord>>, <<NotJson>>}
DriverAudioTrees == {{}, {<<<<"z">>>>, <<<<"z">>, <<"A","B"," ","T","T","S">>>>}}
DriverManualLists == {{}, {<<"E","n","/","c","/","A","b">>}}

Init ==
    /\ IdleProv
    /\ configFile \in DriverConfigFiles
    /\ os_sep \in OsSeps
    /\ ebookDirs = DriverTree
    /\ ebookFiles = DriverFiles
    /\ audioDirs \in DriverAudioTrees
    /\ audioFiles = {}
    /\ tmp_output = {}
    /\ MANUAL_EXCLUSION_LIST \in DriverManualLists
    /\ \/ monolingual_code = "deu" /\ LANGUAGE_MAP = {}
       \/ monolingual_code = "" /\ LANGUAGE_MAP = {<<<<"e","n">>, "eng">>}
    /\ IdleBest
    /\ IdleScan("idle")
    /\ dPc = "start"
    /\ GCP_CONFIG = None
    /\ setupScript \in BOOLEAN
    /\ bookIdx = 1
    /\ pending = ""
    /\ trace = <<>>
    /\ dExit = Running
    /\ run = 1

\* main, lines 452-462: the connection record, then the setup script
LoadConfig ==
    /\ dPc = "start"
    /\ IF configFile = NoFile
       THEN /\ dPc' = "exit" /\ dExit' = <<1>> /\ GCP_CONFIG' = GCP_CONFIG
       ELSE IF "INVALID_JSON" \in DOMAIN configFile[1]
       THEN /\ dPc' = "exit" /\ dExit' = <<1>> /\ GCP_CONFIG' = GCP_CONFIG
       ELSE /\ GCP_CONFIG' = configFile
            /\ IF setupScript
               THEN dPc' = "setup_upload" /\ dExit' = dExit
               ELSE dPc' = "exit" /\ dExit' = <<1>>
    /\ UNCHANGED <<setupScript, bookIdx, pending, trace, run, audioDirs, audioFiles,
                   tmp_output, scanVars, notDriver>>

\* setup_remote_vm, lines 175-197, one step of the three; main, lines 464-467
SetupStep(step) ==
    /\ dPc = step
    /\ IF ~HasRemoteKeys
       THEN \* KeyError at line 175 or in upload_to_vm at lines 89-94
            /\ dPc' = "exit" /\ dExit' = <<1>>
            /\ UNCHANGED <<trace, sPc>>
       ELSE \E result \in Outcomes :
              /\ trace' = Append(trace, Event(step, 0, result))
              /\ dPc' = AfterSetupStep(step, result)
              /\ dExit' = IF dPc' = "exit" THEN SetupExit(result) ELSE dExit
              /\ sPc' = IF dPc' = "scan" THEN "start" ELSE sPc
    /\ UNCHANGED <<GCP_CONFIG, setupScript, bookIdx, pending, run, audioDirs,
                   audioFiles, tmp_output, scanRest, notDriver>>

SetupUpload == SetupStep("setup_upload")
SetupChmod == SetupStep("setup_chmod")
SetupRun == SetupStep("setup_run")

\* main, lines 470-479: the next book, and setup_temp_dirs, which is outside
\* the try block: an OSError or a KeyboardInterrupt in it is caught by nothing
BookStart ==
    /\ dPc = "loop"
    /\ bookIdx <= Len(books_to_convert)
    /\ \E result \in {"ok", "raise", "interrupt"} :
         /\ trace' = Append(trace, Event("begin", bookIdx, result))
         /\ tmp_output' = IF result = "ok" THEN {} ELSE tmp_output
         /\ dPc' = IF result = "ok" THEN "mkdir" ELSE "exit"
         /\ dExit' = IF result = "ok" THEN dExit
                     ELSE IF result = "raise" THEN <<1>> ELSE <<130>>
    /\ UNCHANGED <<GCP_CONFIG, setupScript, bookIdx, pending, run, audioDirs,
                   audioFiles, scanVars, notDriver>>

\* one of the four remote steps of a book: mkdir (lines 486-491), upload
\* (lines 492-493), convert (lines 513-519), download (lines 521-529)
RemoteStep(step, next) ==
    /\ dPc = step
    /\ \E result \in Outcomes :
         /\ trace' = Append(trace, Event(step, bookIdx, result))
         /\ IF result = "ok"
            THEN dPc' = next /\ pending' = pending
            ELSE dPc' = "cleanup" /\ pending' = AfterBookStep(step, result)
    /\ UNCHANGED <<GCP_CONFIG, setupScript, bookIdx, dExit, run, audioDirs,
                   audioFiles, tmp_output, scanVars, notDriver>>

MakeRemoteDirs == RemoteStep("mkdir", "upload")
UploadSource == RemoteStep("upload", "convert")
RunConversion == RemoteStep("convert", "download")
DownloadOutput == RemoteStep("download", "post")

\* what post_process_files meets: the downloaded folder, the credentials of
\* the image search, and the search
Downloads == {"missing", "no_m4b", "m4b"}
CoverSearches == {"url", "not_found", "api_error"}

\* lines 342-346 and 355
FinalDir(book) ==
    PathJoin(PathJoin(audiobooks_root, Dirname(book.relative_path)), book.name \o TTS)
NewFilename(book) == book.name \o TTS \o <<".","m","4","b">>
FinalPath(book) == PathJoin(FinalDir(book), NewFilename(book))

\* os.makedirs(final_dir, exist_ok=True), line 347
MadeDirs(book) == Prefixes(Tail(PathParts(FinalDir(book))))

\* main, lines 531-534: post_process_files (lines 331-357), then the removal of
\* the downloaded folder
PostProcess ==
    /\ dPc = "post"
    /\ LET book == books_to_convert[bookIdx]
       IN \E download \in Downloads, api_key \in BOOLEAN, cover \in CoverSearches,
             interrupted \in {"no", "early", "late"} :
            LET \* line 334 raises when the folder is not there
                listed == download # "missing"
                \* lines 341-349: the output folder is made, the file is renamed
                moved == download = "m4b" /\ interrupted # "early"
                \* line 353: `except HttpError` names an undefined name, so an
                \* error of the search API leaves find_cover_image_url as a NameError
                raised == ~listed \/ (moved /\ api_key /\ cover = "api_error")
                \* lines 355-356
                delivered == moved /\ ~raised /\ interrupted = "no"
                result == IF interrupted # "no" THEN "interrupt"
                          ELSE IF raised THEN "raise" ELSE "ok"
            IN /\ audioDirs' = IF moved THEN audioDirs \cup MadeDirs(book) ELSE audioDirs
               /\ tmp_output' = IF moved /\ ~delivered THEN {NewFilename(book)} ELSE {}
               /\ audioFiles' = IF delivered THEN audioFiles \cup {FinalPath(book)}
                                ELSE audioFiles
               /\ trace' = Append(trace, Event("post", bookIdx, result))
               /\ pending' = AfterBookStep("post", result)
    /\ dPc' = "cleanup"
    /\ UNCHANGED <<GCP_CONFIG, setupScript, bookIdx, dExit, run, scanVars, notDriver>>

\* a loop that takes a failed book again
NextIndex_RetryFailed(i, how) == IF how = "next" THEN i ELSE i + 1

\* line 470: `for i, book in enumerate(books_to_convert)` goes to the next book
\* however the iteration ended
NextIndex(i, how) == i + 1

\* a finally block that is skipped when the script is stopping
FinallyRuns_NotOnAbort(how) == how # "abort"

\* lines 536-545: the finally clause runs however the try block was left, also
\* while the SystemExit of line 538 is on its way
FinallyRuns(how) == TRUE

\* main, lines 541-545: the finally block, then the end of the iteration
Cleanup ==
    /\ dPc = "cleanup"
    /\ \E result \in Outcomes :
         /\ trace' = IF FinallyRuns(pending)
                     THEN Append(trace, Event("cleanup", bookIdx, result))
                     ELSE trace
         /\ IF result = "interrupt"
            THEN \* a KeyboardInterrupt in the finally block is caught by nothing
                 dPc' = "exit" /\ dExit' = <<130>> /\ bookIdx' = bookIdx
            ELSE IF pending = "abort"
            THEN dPc' = "exit" /\ dExit' = <<1>> /\ bookIdx' = bookIdx
            ELSE dPc' = "loop" /\ dExit' = dExit /\ bookIdx' = NextIndex(bookIdx, pending)
    /\ pending' = ""
    /\ UNCHANGED <<GCP_CONFIG, setupScript, run, audioDirs, audioFiles, tmp_output,
                   scanVars, notDriver>>

\* main, line 547: every book was taken
Finish ==
    /\ dPc = "loop"
    /\ bookIdx > Len(books_to_convert)
    /\ dPc' = "done"
    /\ dExit' = <<0>>
    /\ UNCHANGED <<GCP_CONFIG, setupScript, bookIdx, pending, trace, run, audioDirs,
                   audioFiles, tmp_output, scanVars, notDriver>>

\* lines 550-610, the entry point: the script is started again, on the files the last run left
Invoke ==
    /\ dPc \in {"done", "exit"}
    /\ run < MaxRuns
    /\ run' = run + 1
    /\ dPc' = "start"
    /\ GCP_CONFIG' = None
    /\ bookIdx' = 1
    /\ pending' = ""
    /\ trace' = <<>>
    /\ dExit' = Running
    /\ sPc' = "idle"
    /\ auto_exclude_list' = {}
    /\ books_to_convert' = <<>>
    /\ walkStack' = <<>> /\ curRoot' = None /\ dirs' = <<>> /\ dirsTodo' = <<>>
    /\ langTodo' = <<>> /\ catTodo' = <<>> /\ bookTodo' = <<>>
    /\ walked' = {} /\ examined' = {} /\ audioAtScan' = {}
    /\ UNCHANGED <<setupScript, audioDirs, audioFiles, tmp_output, notDriver>>

Next ==
    \/ LoadConfig
    \/ SetupUpload
    \/ SetupChmod
    \/ SetupRun
    \/ ScanStep
    \/ BookStart
    \/ MakeRemoteDirs
    \/ UploadSource
    \/ RunConversion
    \/ DownloadOutput
    \/ PostProcess
    \/ Cleanup
    \/ Finish
    \/ Invoke

Spec == Init /\ [][Next]_vars

\* the steps of one run of the script; starting it again is up to the user
RunStep ==
    \/ LoadConfig
    \/ SetupUpload
    \/ SetupChmod
    \/ SetupRun
    \/ ScanStep
    \/ BookStart
    \/ MakeRemoteDirs
    \/ UploadSource
    \/ RunConversion
    \/ DownloadOutput
    \/ PostProcess
    \/ Cleanup
    \/ Finish

\* a started script goes on with its next statement, and every local call and
\* remote command it waits for comes back with one of its outcomes
SpecFair == Spec /\ WF_vars(RunStep)

\* ------------------------------------------------- claims on the provisioner
SuccessfulAttempts == {k \in DOMAIN attempts : Succeeded(attempts[k].result)}
QuotaFailure(k) ==
    /\ ~Succeeded(attempts[k].result)
    /\ Contains(ErrorMessage(attempts[k].result), QUOTA_EXCEEDED)

\* C1: for every zone list z1..zN returned by the listing call (any N >= 0),
\* creation is attempted in list order, zone zk only after creation failed in
\* z1..z(k-1), none after the first success, and at most N attempts are made.
C1_ZoneSearchInOrder ==
    /\ Len(attempts) <= Len(zoneListing)
    /\ \A k \in DOMAIN attempts : attempts[k].zone = zoneListing[k]
    /\ \A k \in DOMAIN attempts : k < Len(attempts) => ~Succeeded(attempts[k].result)

\* The same statement for the lists of at least one zone.
ZoneSearchInOrderNonEmpty == zoneListing # <<>> => C1_ZoneSearchInOrder

\* C2: a creation attempt that fails with a quota-exceeded error is the last
\* attempt of the run, which exits with code 1 and has written no connection
\* record; after any other failure the loop goes on to the next zone.
C2_QuotaHaltsSearch ==
    \A k \in DOMAIN attempts :
        /\ QuotaFailure(k) =>
              /\ k = Len(attempts)
              /\ pPc = "exit"
              /\ pExit = <<1>>
              /\ configWrites = 0
              /\ configFile = priorFile
        /\ (~Succeeded(attempts[k].result) /\ ~QuotaFailure(k) /\ k = Len(attempts)) =>
              /\ zIdx = k + 1
              /\ pPc \in {"loop", "done"}
              /\ pPc = "done" => k = Len(zones)

\* a pool-exhausted failure, then a quota failure with a zone still untried
C2_Witness ==
    /\ Len(attempts) = 2
    /\ Len(zones) >= 3
    /\ Contains(ErrorMessage(attempts[1].result), ZONE_RESOURCE_POOL_EXHAUSTED)
    /\ ~QuotaFailure(1)
    /\ QuotaFailure(2)
    /\ Contains(ErrorMessage(attempts[2].result), ZONE_RESOURCE_POOL_EXHAUSTED)
    /\ pPc = "exit"

\* C3: the connection record is written if and only if a creation attempt
\* succeeded in this run; it then names the zone of the one successful attempt
\* and the requested instance name; when every zone fails nothing was created
\* and the file is as it was before the run.
C3_RecordIffSuccess ==
    /\ Cardinality(SuccessfulAttempts) <= 1
    /\ configWrites <= 1
    /\ configWrites = 1 =>
          /\ SuccessfulAttempts # {}
          /\ \A k \in SuccessfulAttempts :
                /\ configFile # NoFile
                /\ configFile[1].GCP_ZONE = attempts[k].zone
                /\ configFile[1].INSTANCE_NAME = instance_name
    /\ pPc \in {"done", "exit"} =>
          /\ (configWrites = 1) <=> (SuccessfulAttempts # {})
          /\ SuccessfulAttempts = {} => (instances = {} /\ configFile = priorFile)

\* success in the second zone tried, over a record left by an earlier run
C3_Witness ==
    /\ pPc = "done"
    /\ configWrites = 1
    /\ SuccessfulAttempts = {2}
    /\ attempts[1].zone # attempts[2].zone
    /\ priorFile = <<OldRecord>>

\* ------------------------------------------- claims on find_best_ebook_file
ClaimedPriority == <<<<".","e","p","u","b">>, <<".","a","z","w","3">>, <<".","a","z","w">>, <<".","m","o","b","i">>, <<".","t","x","t">>, <<".","p","d","f">>>>

\* the extension of a name: its part from the last "." on, in lower case
ExtensionOf(name) ==
    IF \E i \in DOMAIN name : name[i] = "."
    THEN LET i == CHOOSE i \in DOMAIN name :
                     name[i] = "." /\ \A j \in DOMAIN name : name[j] = "." => j <= i
         IN Lower(SubSeq(name, i, Len(name)))
    ELSE <<>>

Recognized(name) == \E k \in DOMAIN ClaimedPriority : ClaimedPriority[k] = ExtensionOf(name)
PriorityOf(name) == CHOOSE k \in DOMAIN ClaimedPriority : ClaimedPriority[k] = ExtensionOf(name)

\* C5: find_best_ebook_file returns one entry whose extension, compared
\* without regard to case, comes earliest in [.epub, .azw3, .azw, .mobi, .txt,
\* .pdf] among the entries of the directory, and None when no entry has an
\* extension of the list; with a .txt and a .epub present it returns a .epub.
C5_BestFileByPriority ==
    bPc = "done" =>
        LET matching == {i \in DOMAIN listing : Recognized(listing[i])}
        IN /\ matching = {} => best_file = None
           /\ matching # {} =>
                \E i \in matching :
                    /\ best_file = <<BookFolder \o <<os_sep>> \o listing[i]>>
                    /\ \A j \in matching : PriorityOf(listing[i]) <= PriorityOf(listing[j])
           /\ (\E i, j \in matching : /\ ExtensionOf(listing[i]) = <<".","t","x","t">>
                                      /\ ExtensionOf(listing[j]) = <<".","e","p","u","b">>)
                => /\ best_file # None
                   /\ ExtensionOf(best_file[1]) = <<".","e","p","u","b">>

\* a folder listed as a .txt, then an upper-case .EPUB: the .EPUB is returned
C5_Witness ==
    /\ bPc = "done"
    /\ Len(listing) >= 2
    /\ listing[1] = <<"f",".","t","x","t">>
    /\ listing[2] = <<"b",".","E","P","U","B">>
    /\ best_file = <<BookFolder \o <<os_sep>> \o <<"b",".","E","P","U","B">>>>

\* ------------------------------------------------ claims on scan_for_books
Monolingual == monolingual_code # ""
NameOf(p) == p[Len(p)]
ReturnedDirs == {books_to_convert[i].dir : i \in DOMAIN books_to_convert}

\* the names of `parts` with "/" between them
RECURSIVE SlashPath(_)
SlashPath(parts) ==
    IF Len(parts) = 1 THEN parts[1]
    ELSE SlashPath(SubSeq(parts, 1, Len(parts) - 1)) \o <<"/">> \o parts[Len(parts)]

\* the names of `parts` with the separator of the platform between them
RECURSIVE NativePath(_)
NativePath(parts) ==
    IF Len(parts) = 1 THEN parts[1]
    ELSE NativePath(SubSeq(parts, 1, Len(parts) - 1)) \o <<os_sep>> \o parts[Len(parts)]

\* directory p holds an entry with an extension of the priority list
HoldsEbook(p) == \E e \in ListDir(p) : Recognized(e)

\* the directories the scan takes for candidate books
Candidates ==
    IF Monolingual
    THEN {p \in ebookDirs : \A k \in 1..(Len(p) - 1) : ~HoldsEbook(SubSeq(p, 1, k))}
    ELSE {p \in ebookDirs : Len(p) = 3}

ManuallyExcluded(p) == SlashPath(p) \in MANUAL_EXCLUSION_LIST

\* an output folder "<X> TTS" exists whose X is the name of p but for case
MarkerExcluded(p, outDirs) ==
    \E d \in outDirs :
        /\ EndsWith(NameOf(d), TTS)
        /\ Lower(SubSeq(NameOf(d), 1, Len(NameOf(d)) - 4)) = Lower(NameOf(p))

\* an output folder exists, marked or not, with the name of p but for case
NameExcluded(p, outDirs) ==
    \/ MarkerExcluded(p, outDirs)
    \/ \E d \in outDirs : ~EndsWith(NameOf(d), TTS) /\ Lower(NameOf(d)) = Lower(NameOf(p))

C6_MonolingualLeafBooks ==
    Monolingual =>
        /\ \A p \in examined :
              HoldsEbook(p) =>
                  /\ p \notin walked
                  /\ \A q \in ebookDirs :
                        (Len(q) > Len(p) /\ SubSeq(q, 1, Len(p)) = p) =>
                            /\ q \notin walked
                            /\ q \notin examined
                            /\ q \notin ReturnedDirs
        /\ \A i \in DOMAIN books_to_convert :
              books_to_convert[i].lang_code = monolingual_code

\* a finished scan in which En/c/Ab was taken for a book and excluded by the
\* manual list, and its directory s, which holds ebooks, was not looked at
C6_Witness ==
    /\ Monolingual
    /\ sPc = "done"
    /\ <<nEn, nC, nAb>> \in examined
    /\ HoldsEbook(<<nEn, nC, nAb>>)
    /\ ManuallyExcluded(<<nEn, nC, nAb>>)
    /\ <<nEn, nC, nAb, nS>> \in ebookDirs
    /\ HoldsEbook(<<nEn, nC, nAb, nS>>)
    /\ <<nEn, nC>> \in walked
    /\ books_to_convert = <<>>

\* dict lookup of the claim: by the name as it is written
Lookup(dict, key, default) ==
    IF \E e \in dict : e[1] = key THEN (CHOOSE e \in dict : e[1] = key)[2] ELSE default

\* C7: in multilingual mode every returned book is a directory at depth three;
\* its language code is the table's value for the language directory name, or
\* "en" when the name is not in the table; its name is the book directory
\* name and its relative path is language/category/book.
C7_MultilingualDepthThree ==
    ~Monolingual =>
        \A i \in DOMAIN books_to_convert :
            LET b == books_to_convert[i]
            IN /\ Len(b.dir) = 3
               /\ b.lang_code = Lookup(LANGUAGE_MAP, b.dir[1], "en")
               /\ b.name = b.dir[3]
               /\ b.relative_path = SlashPath(b.dir)

\* C7 as amended: the table is looked up with the lower-cased language
\* directory name, and the relative path has the three names joined by the
\* separator of the platform.
C7_MultilingualLowerCasedLookup ==
    ~Monolingual =>
        \A i \in DOMAIN books_to_convert :
            LET b == books_to_convert[i]
            IN /\ Len(b.dir) = 3
               /\ b.dir \in ebookDirs
               /\ b.lang_code = Lookup(LANGUAGE_MAP, Lower(b.dir[1]), "en")
               /\ b.name = b.dir[3]
               /\ b.relative_path = NativePath(b.dir)

\* the directory En with the table {en: eng}: the book En/c/Ab gets eng, while
\* En, En/c and En/c/Ab/s hold ebooks too and are not returned
C7_Witness ==
    /\ ~Monolingual
    /\ sPc = "done"
    /\ LANGUAGE_MAP = {<<<<"e","n">>, "eng">>}
    /\ \A p \in ebookDirs : HoldsEbook(p)
    /\ <<nEn, nC, nAb, nS>> \in ebookDirs
    /\ Len(books_to_convert) = 1
    /\ books_to_convert[1].dir = <<nEn, nC, nAb>>
    /\ books_to_convert[1].lang_code = "eng"
    /\ books_to_convert[1].relative_path = NativePath(<<nEn, nC, nAb>>)

\* ------------------------------------------------------- claims on main
Happened(what, book) == \E k \in DOMAIN trace : trace[k].what = what /\ trace[k].book = book
Interrupted == \E k \in DOMAIN trace : trace[k].result = "interrupt"
ExitedNonzero == dExit # Running /\ dExit # <<0>>
InSeq(x, s) == \E n \in DOMAIN s : s[n] = x
IndexIn(x, s) == CHOOSE n \in DOMAIN s : s[n] = x
ScanUntouched ==
    sPc = "idle" /\ books_to_convert = <<>> /\ walked = {} /\ examined = {}
        /\ audioAtScan = {}

\* C8: across runs, once an output folder "<X> TTS" exists anywhere under the
\* audiobooks root, as post-processing creates for a converted book X, every
\* later scan, in either mode, returns no book whose directory name equals X
\* but for case.
C8_ConvertedNeverRequeued ==
    /\ \A i \in DOMAIN books_to_convert :
          ~MarkerExcluded(books_to_convert[i].dir, audioAtScan)
    /\ sPc # "idle" => audioAtScan \subseteq audioDirs
    /\ \A i \in DOMAIN books_to_convert :
          FinalPath(books_to_convert[i]) \in audioFiles =>
              \E d \in audioDirs : NameOf(d) = books_to_convert[i].name \o TTS

\* a second run that finds the folder the first run made for Ab, and queues
\* neither Ab nor ab
C8_Witness ==
    /\ run = 2
    /\ sPc = "done"
    /\ MANUAL_EXCLUSION_LIST = {}
    /\ <<nEn, nC, nAb \o TTS>> \in audioAtScan
    /\ <<nEn, <<"d">>, <<"a","b">> \o TTS>> \notin audioAtScan
    /\ <<<<"z">>>> \notin audioAtScan
    /\ PathJoin(PathJoin(PathJoin(audiobooks_root, SlashPath(<<nEn, nC>>)),
                         nAb \o TTS), nAb \o TTS \o <<".","m","4","b">>) \in audioFiles
    /\ books_to_convert = <<>>

\* C9: the setup runs upload, chmod, execute in this order, a step only after
\* the one before it succeeded; when one of the three fails the driver exits
\* nonzero, the library is not scanned and no per-book remote operation is
\* issued.
C9_SetupGatesTheRun ==
    /\ \A k \in DOMAIN trace :
          /\ k <= 3 => trace[k].what = SetupSteps[k]
          /\ k > 3 => ~InSeq(trace[k].what, SetupSteps)
          /\ (k <= 3 /\ trace[k].result # "ok") =>
                /\ k = Len(trace)
                /\ dPc = "exit"
                /\ ExitedNonzero
                /\ ScanUntouched
    /\ sPc # "idle" =>
          Len(trace) >= 3 /\ \A k \in 1..3 : trace[k].result = "ok"

\* the script was uploaded, chmod failed, and the driver has exited with 1
C9_Witness ==
    /\ Len(trace) = 2
    /\ trace[1] = Event("setup_upload", 0, "ok")
    /\ trace[2] = Event("setup_chmod", 0, "fail")
    /\ dPc = "exit"
    /\ dExit = <<1>>
    /\ ScanUntouched

\* C10: a step of the per-book sequence (mkdir, upload, convert, download,
\* post-process) is executed only after every earlier step of the same book
\* succeeded; a step that fails, the download included, ends the processing of
\* that book only: cleanup follows, the run does not stop for it and the next
\* queued book is taken.
C10_FailureSkipsOneBook ==
    /\ \A k \in DOMAIN trace :
          InSeq(trace[k].what, BookSteps) =>
             LET n == IndexIn(trace[k].what, BookSteps)
             IN /\ k > 1
                /\ trace[k - 1].book = trace[k].book
                /\ trace[k - 1].result = "ok"
                /\ trace[k - 1].what = IF n = 1 THEN "begin" ELSE BookSteps[n - 1]
                /\ trace[k].result \in {"fail", "raise"} =>
                      IF k = Len(trace)
                      THEN dPc = "cleanup" /\ pending = "next" /\ dExit = Running
                      ELSE /\ trace[k + 1].what = "cleanup"
                           /\ trace[k + 1].book = trace[k].book
                           /\ trace[k + 1].result # "interrupt" =>
                                 IF k + 1 = Len(trace)
                                 THEN /\ dPc \in {"loop", "done"}
                                      /\ dExit \in {Running, <<0>>}
                                      /\ dPc = "loop" => bookIdx = trace[k].book + 1
                                 ELSE /\ trace[k + 2].what = "begin"
                                      /\ trace[k + 2].book = trace[k].book + 1
    /\ (ExitedNonzero /\ \E k \in DOMAIN trace : trace[k].what = "begin") =>
          \E k \in DOMAIN trace :
              trace[k].result = "interrupt" \/ (trace[k].what = "begin" /\ trace[k].result # "ok")
    /\ dPc = "done" => \A i \in DOMAIN books_to_convert : Happened("begin", i)

\* the download of the first book failed, the second book was converted and
\* delivered, and the run ended with 0
C10_Witness ==
    /\ Len(books_to_convert) = 2
    /\ \E k \in DOMAIN trace : trace[k] = Event("download", 1, "fail")
    /\ \E k \in DOMAIN trace : trace[k] = Event("post", 2, "ok")
    /\ FinalPath(books_to_convert[2]) \in audioFiles
    /\ dPc = "done"
    /\ dExit = <<0>>

\* ------------------------------------------- claims on the per-book loop
IsBookStep(e) == InSeq(e.what, BookSteps)
NextStepOf(what) == BookSteps[IndexIn(what, BookSteps) + 1]
\* where main is after event e, when e is the last thing it did
PcAfter(e) ==
    IF e.result = "ok" /\ e.what # "post" THEN NextStepOf(e.what) ELSE "cleanup"

\* C11: for every book whose sequence was started, the remote cleanup command
\* is issued after the last step executed for that book and before anything is
\* done for the next book, whether the book succeeded, failed, raised an
\* exception or was interrupted.
C11_CleanupAfterEveryBook ==
    /\ \A k \in DOMAIN trace :
          IsBookStep(trace[k]) =>
             IF k = Len(trace)
             THEN dExit = Running /\ dPc = PcAfter(trace[k])
             ELSE /\ trace[k + 1].book = trace[k].book
                  /\ trace[k + 1].what = PcAfter(trace[k])
    /\ \A k \in DOMAIN trace :
          (trace[k].what = "begin" /\ trace[k].book > 1) =>
              /\ trace[k - 1].what = "cleanup"
              /\ trace[k - 1].book = trace[k].book - 1
    /\ dPc \in {"exit", "done"} =>
          \A i \in DOMAIN books_to_convert :
              Happened("mkdir", i) => Happened("cleanup", i)

\* the conversion of the first book was interrupted, the cleanup command was
\* issued all the same, and the script has exited with 1
C11_Witness ==
    /\ Len(trace) = 8
    /\ trace[7] = Event("convert", 1, "interrupt")
    /\ trace[8].what = "cleanup" /\ trace[8].book = 1 /\ trace[8].result # "interrupt"
    /\ dPc = "exit"
    /\ dExit = <<1>>

\* post-processing of book i has run to its end or to an exception, and is the
\* last thing main did
PostEnded(k) ==
    trace[k].what = "post" /\ trace[k].result # "interrupt" /\ k = Len(trace)

\* C12: a failure of an enrichment step of post-processing (title tag, cover
\* search with an error of the search API, cover download or embedding) never
\* fails the book: post_process_files does not raise for it and the renamed
\* audio file is not left in TEMP_OUTPUT_DIR but moved to its final place.
C12_EnrichmentNeverFailsBook ==
    \A k \in DOMAIN trace :
        PostEnded(k) =>
            LET book == books_to_convert[trace[k].book]
            IN /\ NewFilename(book) \notin tmp_output
               /\ MadeDirs(book) \subseteq audioDirs /\ ~(MadeDirs(book) \subseteq audioAtScan)
                     => FinalPath(book) \in audioFiles

\* the run was stopped by the user, or setup_temp_dirs failed
Aborted ==
    \E k \in DOMAIN trace :
        trace[k].result = "interrupt" \/ (trace[k].what = "begin" /\ trace[k].result # "ok")

NoRepeat ==
    \A j, k \in DOMAIN trace :
        (j < k /\ trace[j].what = trace[k].what) => trace[j].book # trace[k].book

InScanOrder ==
    \A k \in DOMAIN trace :
        trace[k].what = "begin" =>
            /\ trace[k].book \in DOMAIN books_to_convert
            /\ \A i \in 1..(trace[k].book - 1) :
                  \E j \in 1..(k - 1) : trace[j].what = "begin" /\ trace[j].book = i

EndsNormally ==
    (dPc \in {"done", "exit"} /\ sPc = "done" /\ ~Aborted) =>
        /\ dPc = "done"
        /\ dExit = <<0>>
        /\ \A i \in DOMAIN books_to_convert : Happened("begin", i)

\* C13: once setup has succeeded, for every scan result of M books and every
\* combination of step outcomes without a user interrupt, the sequence is
\* started for each of the M books exactly once, in scan order, no step and no
\* book is run twice, and the run ends normally.
C13_EveryBookOnceThenDone ==
    /\ [](NoRepeat /\ InScanOrder /\ EndsNormally)
    /\ (dPc = "loop") ~> (dPc = "done" \/ Aborted)

\* two books, the first failed at mkdir, the second raised in post-processing,
\* nobody interrupted, and the run ended with 0
C13_Witness ==
    /\ Len(books_to_convert) = 2
    /\ ~Aborted
    /\ \E k \in DOMAIN trace : trace[k] = Event("mkdir", 1, "fail")
    /\ \E k \in DOMAIN trace : trace[k] = Event("post", 2, "raise")
    /\ Len(trace) = 3 + 3 + 7
    /\ dPc = "done"
    /\ dExit = <<0>>

\* C14: no remote copy and no remote command is issued unless the connection
\* record was found and loaded and holds the zone, the instance name and the
\* remote user; when the file is absent the driver exits nonzero before the
\* setup and before any book.
C14_NoRemoteWithoutRecord ==
    /\ trace # <<>> =>
          /\ configFile # NoFile
          /\ GCP_CONFIG = configFile
          /\ RemoteKeys \subseteq DOMAIN GCP_CONFIG[1]
    /\ (configFile = NoFile /\ dPc # "start") =>
          /\ dPc = "exit"
          /\ ExitedNonzero
          /\ trace = <<>>
          /\ ScanUntouched

\* the script was started again without a record and has exited with 1
C14_Witness ==
    /\ run = 2
    /\ configFile = NoFile
    /\ GCP_CONFIG = None
    /\ dPc = "exit"
    /\ dExit = <<1>>
    /\ trace = <<>>
    /\ ScanUntouched

\* C15: a user interrupt during a step of a book inside the loop aborts the
\* whole run with a nonzero exit code: after it nothing is done but the cleanup
\* of that book, and no later book is touched; an exception of the book that is
\* not an interrupt is followed by the next book.
C15_InterruptAbortsRun ==
    /\ \A k \in DOMAIN trace :
          (trace[k].result = "interrupt" /\ trace[k].book >= 1) =>
              /\ \A j \in (k + 1)..Len(trace) :
                    /\ j = k + 1
                    /\ trace[j].what = "cleanup"
                    /\ trace[j].book = trace[k].book
              /\ dPc \in {"cleanup", "exit"}
              /\ dPc = "cleanup" => pending = "abort" /\ k = Len(trace)
              /\ dPc = "exit" => ExitedNonzero
              /\ trace[k].what \notin {"cleanup", "begin"} /\ dPc = "exit" => k < Len(trace)
    /\ \A k \in DOMAIN trace :
          (trace[k].result = "raise" /\ IsBookStep(trace[k]) /\ k + 1 < Len(trace)
              /\ trace[k + 1].result # "interrupt") =>
                  trace[k + 2].what = "begin" /\ trace[k + 2].book = trace[k].book + 1

\* two books were queued, the upload of the first was interrupted, its cleanup
\* was issued, and the script has exited with 1 without touching the second
C15_Witness ==
    /\ Len(books_to_convert) = 2
    /\ Len(trace) = 7
    /\ trace[6] = Event("upload", 1, "interrupt")
    /\ trace[7] = Event("cleanup", 1, "ok")
    /\ dPc = "exit"
    /\ dExit = <<1>>

\* the folder "<name> TTS" of `book`, as a path below the audiobooks root
FolderOf(book) == Tail(PathParts(FinalDir(book)))

\* the processing of the book of event k has ended, and not by an interrupt
BookEnded(k) ==
    /\ trace[k].what = "cleanup"
    /\ trace[k].result # "interrupt"
    /\ trace[k - 1].result # "interrupt"

\* C16: whenever the processing of a book has ended by success, failure or
\* exception, a folder "<book name> TTS" that the driver made for it exists
\* under the audiobooks root only if the audio file of the book was moved into
\* that folder.
C16_FolderOnlyWithAudio ==
    \A k \in DOMAIN trace :
        BookEnded(k) =>
            LET book == books_to_convert[trace[k].book]
            IN (FolderOf(book) \in audioDirs /\ FolderOf(book) \notin audioAtScan)
                  => FinalPath(book) \in audioFiles

====
